---- MODULE Spec2Model ----
(***************************************************************************)
(* A model of the authenticated transport layer of go-atlassian's Jira v3  *)
(* client: client construction from options (New and the With* options),   *)
(* the OAuth2 token source, the response classifier (Call and              *)
(* processResponse) and the issue archival operations built on them.       *)
(*                                                                         *)
(* Strings that the code inspects (sites, bodies, URLs, paths) are         *)
(* sequences of tokens: the token "/" is the path separator, CTL is an     *)
(* ASCII control character, every other token is a run of ordinary         *)
(* characters.  Go's nil is the string "nil" for names and a record of     *)
(* kind "nil" for structured values.                                       *)
(***************************************************************************)
EXTENDS Integers, Sequences, FiniteSets, TLC

\* ------------------------------------------------------------------ bounds

\* The longest option list New is given.
MaxOpts == 3

\* The number of concurrent callers of the token source.
MaxCallers == 3

\* The credential writes another thread makes while a request is built.
MaxCredentialWrites == 2

\* The longest option list of a client whose direct calls of NewRequest are
\* followed after New returned it.
MaxOptsBeforeRequest == 2

\* The longest option list of a client whose archival operations are
\* followed after New returned it.
MaxOptsBeforeOp == 1

\* ------------------------------------------------------------------ state

\* Client construction (New).
VARIABLES
    httpClient,     \* New's httpClient argument
    site,           \* New's site argument
    nOptions,       \* len(options)
    newPc,          \* where New is: "start", "options", "done" ("idle": not called)
    client,         \* the client under construction
    applied,        \* the options New has invoked so far, in order
    optErrs,        \* what each of them returned
    newRet          \* what New returned

\* The OAuth2 token source and its concurrent callers.
VARIABLES
    tsInitial,      \* the token the source held when the callers started
    tsHeld,         \* the token the source holds
    tsMu,           \* the caller inside the refresh critical section, 0 if none
    tsPc,           \* where each caller of Token() is
    tsGot,          \* what Token() returned to each caller
    tsExchanges,    \* the refresh exchanges executed
    tsFailures      \* those of them that failed

\* One archival operation on a built client: the request, the exchange and
\* the classification of the response.
VARIABLES
    opName,         \* the operation: Preserve, PreserveByJQL, Restore, Export
    opArg,          \* its issueIdsOrKeys, jql or payload
    version,        \* the API version the service was constructed with
    ctx,            \* its context argument
    auth,           \* the client's credential state
    opPc,           \* where the operation is
    request,        \* the request NewRequest built
    structure,      \* the destination handed to Call
    response,       \* the response the transport returned
    res,            \* the envelope processResponse fills
    pending,        \* processResponse's return values, while its defer runs
    callRet,        \* what Call returned
    events,         \* the calls made so far, in order
    opRet           \* what the operation returned

newVars == <<httpClient, site, nOptions, newPc, client, applied, optErrs, newRet>>

tsVars == <<tsInitial, tsHeld, tsMu, tsPc, tsGot, tsExchanges, tsFailures>>

opVars == <<opName, opArg, version, ctx, auth, opPc, request, structure, response, res,
            pending, callRet, events, opRet>>

vars == <<newVars, tsVars, opVars>>

\* What an action of New, of the token source and of an operation leaves
\* alone.
newFrame == <<tsVars, opVars>>

tsFrame == <<newVars, opVars>>

opFrame == <<newVars, tsVars>>

\* ------------------------------------------------------------------ values

Nil == "nil"
CTL == "<ctl>"

NilHTTP == [kind |-> "nil"]
NilOAuth == [kind |-> "nil"]
NilClient == [kind |-> "nil"]

\* The HTTP clients a caller may hand to New (nil, or a client of its own).
HTTPClients == {NilHTTP, [kind |-> "base", id |-> "h1"]}

\* http.DefaultClient
DefaultClient == [kind |-> "base", id |-> "default"]

\* The sites a caller may hand to New: empty, with and without the trailing
\* separator, and one url.Parse rejects.
Sites ==
    { <<>>, <<"x">>, <<"x", "/">>, <<"x", "/", "y">>, <<"x", CTL>> }

Configs == {Nil, "cfg1"}
Tokens == {Nil, "tokA", "tokEmpty"}
Stores == {Nil, "s1", "s2"}
Callbacks == {Nil, "cb1", "cb2"}

\* token.AccessToken ("" for a token without one)
AccessToken(token) ==
    IF token = "tokA" THEN "accessA" ELSE ""

\* The options a caller may put in the list.
Opt(kind, config, token, hook) ==
    [kind |-> kind, config |-> config, token |-> token, hook |-> hook]

Options ==
    {Opt("WithOAuth", c, Nil, Nil) : c \in Configs}
    \cup {Opt("WithAutoRenewalToken", Nil, t, Nil) : t \in Tokens}
    \cup {Opt("WithOAuthWithAutoRenewal", c, t, Nil) : c \in Configs, t \in Tokens}
    \cup {Opt("WithTokenStore", Nil, Nil, s) : s \in Stores}
    \cup {Opt("WithTokenCallback", Nil, Nil, cb) : cb \in Callbacks}

\* ------------------------------------------------------- package oauth2

\* oauth2.NewOAuth2Service(httpClient, config)
NewOAuth2Service(http, config) ==
    IF config = Nil \/ http = NilHTTP
        THEN [service |-> NilOAuth, err |-> "ErrOAuthService"]
        ELSE [service |-> [kind |-> "oauth2service", config |-> config, http |-> http],
              err |-> Nil]

\* oauth2.ExtractWrapper(httpClient): the wrapper and true when httpClient is
\* a wrapper made by WrapHTTPClient, else (nil, false).
ExtractWrapper(http) ==
    IF http.kind = "wrapper"
        THEN [wrapper |-> http, ok |-> TRUE]
        ELSE [wrapper |-> NilHTTP, ok |-> FALSE]

\* Unwrap: the original client of a wrapper and true, else (nil, false).
Unwrap(http) ==
    LET r == ExtractWrapper(http)
    IN  IF r.ok
            THEN [original |-> r.wrapper.OriginalClient, ok |-> TRUE]
            ELSE [original |-> NilHTTP, ok |-> FALSE]

\* WrapHTTPClient making a new wrapper around whatever it is given.
WrapHTTPClient_AlwaysNew(http) ==
    [kind |-> "wrapper", OriginalClient |-> http, Store |-> Nil, Callback |-> Nil]

\* oauth2.WrapHTTPClient(httpClient): a wrapper remembering httpClient as the
\* original; an httpClient that is a wrapper already is returned as it is.
WrapHTTPClient(http) ==
    IF http.kind = "wrapper"
        THEN http
        ELSE [kind |-> "wrapper", OriginalClient |-> http,
              Store |-> Nil, Callback |-> Nil]

\* WithStore keeping a store that is attached already.
WithStore_KeepsFirst(wrapper, store) ==
    IF wrapper.Store # Nil THEN wrapper ELSE [wrapper EXCEPT !.Store = store]

\* (*HTTPClientWrapper).WithStore(store)
WithStore(wrapper, store) == [wrapper EXCEPT !.Store = store]

\* (*HTTPClientWrapper).WithCallback(callback)
WithCallback(wrapper, callback) == [wrapper EXCEPT !.Callback = callback]

\* ExtractBaseTransport walking through the wrapper only.
ExtractBaseTransport_WrapperOnly(http) ==
    IF http.kind = "wrapper" THEN http.OriginalClient ELSE http

\* oauth2.ExtractBaseTransport(httpClient): the innermost transport that
\* decorates no other one, found by walking through the wrapper and the
\* OAuth refresh layers.
RECURSIVE ExtractBaseTransport(_)
ExtractBaseTransport(http) ==
    IF http.kind = "wrapper"
        THEN ExtractBaseTransport(http.OriginalClient)
    ELSE IF http.kind = "oauth"
        THEN ExtractBaseTransport(http.Base)
    ELSE http

\* oauth2.SetupTokenSourcesWithStorage(ctx, token, oauthService, httpClient):
\* the reuse token source over token, with the store and the callback the
\* httpClient's wrapper carries.
SetupTokenSourcesWithStorage(token, oauth, http) ==
    IF token = Nil \/ oauth = NilOAuth
        THEN [reuseSource |-> [kind |-> "nil"], err |-> "ErrTokenSources"]
        ELSE [reuseSource |->
                [kind |-> "reuse", token |-> token,
                 Store |-> IF http.kind = "wrapper" THEN http.Store ELSE Nil,
                 Callback |-> IF http.kind = "wrapper" THEN http.Callback ELSE Nil],
              err |-> Nil]

\* oauth2.CreateOAuthTransport(reuseSource, base, auth)
CreateOAuthTransport(reuseSource, base) ==
    [kind |-> "oauth", Source |-> reuseSource, Base |-> base]

\* ------------------------------------------------------ client options

\* What an option returns, with the client as the option left it.
OptResult(c, err) == [c |-> c, err |-> err]

\* WithOAuth without the assignment to c.OAuth.
WithOAuth_KeepsNoService(config, c) ==
    IF config = Nil
        THEN OptResult(c, "ErrOAuthConfigNil")
        ELSE OptResult(c, Nil)

\* WithOAuth(config)(c)
WithOAuth(config, c) ==
    IF config = Nil
        THEN OptResult(c, "ErrOAuthConfigNil")
        ELSE LET r == NewOAuth2Service(c.HTTP, config)
             IN  IF r.err # Nil
                     THEN OptResult(c, "ErrOAuthServiceFailed")
                     ELSE OptResult([c EXCEPT !.OAuth = r.service], Nil)

\* WithAutoRenewalToken without the check of c.OAuth.
WithAutoRenewalToken_NoOAuthCheck(token, c) ==
    IF token = Nil
        THEN OptResult(c, "ErrTokenNil")
        ELSE LET base == ExtractBaseTransport(c.HTTP)
                 src == [kind |-> "reuse", token |-> token,
                         Store |-> Nil, Callback |-> Nil]
             IN  OptResult([c EXCEPT !.HTTP = CreateOAuthTransport(src, base),
                                     !.Bearer = AccessToken(token)], Nil)

\* WithAutoRenewalToken without the call of SetBearerToken.
WithAutoRenewalToken_KeepsBearer(token, c) ==
    IF token = Nil
        THEN OptResult(c, "ErrTokenNil")
    ELSE IF c.OAuth = NilOAuth
        THEN OptResult(c, "ErrOAuthNotConfigured")
    ELSE LET r == SetupTokenSourcesWithStorage(token, c.OAuth, c.HTTP)
         IN  IF r.err # Nil
                 THEN OptResult(c, "ErrTokenSourcesFailed")
                 ELSE LET base == ExtractBaseTransport(c.HTTP)
                      IN  OptResult([c EXCEPT !.HTTP =
                                        CreateOAuthTransport(r.reuseSource, base)], Nil)

\* WithAutoRenewalToken(token)(c): the assignment of wrapper.OriginalClient
\* to c.HTTP is overwritten by the OAuth transport.
WithAutoRenewalToken(token, c) ==
    IF token = Nil
        THEN OptResult(c, "ErrTokenNil")
    ELSE IF c.OAuth = NilOAuth
        THEN OptResult(c, "ErrOAuthNotConfigured")
    ELSE LET r == SetupTokenSourcesWithStorage(token, c.OAuth, c.HTTP)
         IN  IF r.err # Nil
                 THEN OptResult(c, "ErrTokenSourcesFailed")
                 ELSE LET base == ExtractBaseTransport(c.HTTP)
                          w == ExtractWrapper(c.HTTP)
                          c1 == IF w.ok
                                    THEN [c EXCEPT !.HTTP = w.wrapper.OriginalClient]
                                    ELSE c
                          c2 == [c1 EXCEPT !.HTTP = CreateOAuthTransport(r.reuseSource, base)]
                      IN  OptResult([c2 EXCEPT !.Bearer = AccessToken(token)], Nil)

\* WithOAuthWithAutoRenewal going on to the renewal whatever WithOAuth
\* returned.
WithOAuthWithAutoRenewal_IgnoresOAuthError(config, token, c) ==
    LET r == WithOAuth(config, c)
    IN  WithAutoRenewalToken_NoOAuthCheck(token, r.c)

\* WithOAuthWithAutoRenewal(config, token)(c)
WithOAuthWithAutoRenewal(config, token, c) ==
    LET r == WithOAuth(config, c)
    IN  IF r.err # Nil
            THEN r
            ELSE WithAutoRenewalToken(token, r.c)

\* WithTokenStore installing whatever store it is given.
WithTokenStore_AcceptsNil(store, c) ==
    OptResult([c EXCEPT !.HTTP = WithStore(WrapHTTPClient(c.HTTP), store)], Nil)

\* WithTokenStore(store)(c)
WithTokenStore(store, c) ==
    IF store = Nil
        THEN OptResult(c, "ErrTokenStoreNil")
        ELSE OptResult([c EXCEPT !.HTTP = WithStore(WrapHTTPClient(c.HTTP), store)], Nil)

\* WithTokenCallback(callback)(c)
WithTokenCallback(callback, c) ==
    IF callback = Nil
        THEN OptResult(c, "ErrTokenCallbackNil")
        ELSE OptResult([c EXCEPT !.HTTP = WithCallback(WrapHTTPClient(c.HTTP), callback)], Nil)

\* option(client): the call of one ClientOption on the client.
ApplyOption(opt, c) ==
    CASE opt.kind = "WithOAuth" -> WithOAuth(opt.config, c)
      [] opt.kind = "WithAutoRenewalToken" -> WithAutoRenewalToken(opt.token, c)
      [] opt.kind = "WithOAuthWithAutoRenewal" ->
            WithOAuthWithAutoRenewal(opt.config, opt.token, c)
      [] opt.kind = "WithTokenStore" -> WithTokenStore(opt.hook, c)
      [] opt.kind = "WithTokenCallback" -> WithTokenCallback(opt.hook, c)

\* ------------------------------------------------------------------ New

\* strings.HasSuffix(site, "/")
HasSuffixSlash(s) == Len(s) > 0 /\ s[Len(s)] = "/"

\* url.Parse(site) fails on a string holding an ASCII control character.
URLParseFails(s) == \E i \in 1..Len(s) : s[i] = CTL

\* New without the check of the site.
SiteMissing_Never(s) == FALSE

\* New refuses an empty site.
SiteMissing(s) == s = <<>>

\* The site with a separator appended in every case.
NormaliseSite_AlwaysAppends(s) == Append(s, "/")

\* The site New parses: a separator is appended unless the site ends in one.
NormaliseSite(s) == IF HasSuffixSlash(s) THEN s ELSE Append(s, "/")

\* What New returns.
NewResult(c, err) == [client |-> c, err |-> err]

\* New returning the client with the option's error.
NewOptionFailed_ReturnsClient(c, err) == NewResult(c, err)

\* New's return when an option failed.
NewOptionFailed(c, err) == NewResult(NilClient, err)

NewInit ==
    /\ httpClient \in HTTPClients
    /\ site \in Sites
    /\ nOptions \in 0..MaxOpts
    /\ newPc = "start"
    /\ client = NilClient
    /\ applied = <<>>
    /\ optErrs = <<>>
    /\ newRet = NewResult(NilClient, Nil)

\* New up to the option loop: the site is checked, normalised and parsed and
\* the client is built with its services (their constructors are given
\* APIVersion and the client, and do not fail).
NewStart ==
    /\ newPc = "start"
    /\ LET http == IF httpClient = NilHTTP THEN DefaultClient ELSE httpClient
           normalised == NormaliseSite(site)
       IN  \/ /\ SiteMissing(site)
              /\ newRet' = NewResult(NilClient, "ErrNoSite")
              /\ newPc' = "done"
              /\ UNCHANGED client
           \/ /\ ~SiteMissing(site)
              /\ URLParseFails(normalised)
              /\ newRet' = NewResult(NilClient, "ErrURLParse")
              /\ newPc' = "done"
              /\ UNCHANGED client
           \/ /\ ~SiteMissing(site)
              /\ ~URLParseFails(normalised)
              /\ client' = [kind |-> "client", HTTP |-> http, Site |-> normalised,
                            OAuth |-> NilOAuth, Bearer |-> ""]
              /\ newPc' = "options"
              /\ UNCHANGED newRet
    /\ UNCHANGED <<httpClient, site, nOptions, applied, optErrs>>
    /\ UNCHANGED newFrame

\* The option loop going on to the next option after one failed.
NewApplyOption_ContinuesAfterError ==
    /\ newPc = "options"
    /\ Len(applied) < nOptions
    /\ \E opt \in Options :
        LET r == ApplyOption(opt, client)
        IN  /\ applied' = Append(applied, opt)
            /\ optErrs' = Append(optErrs, r.err)
            /\ client' = r.c
            /\ IF r.err # Nil
                   THEN newRet' = NewOptionFailed(r.c, r.err)
                   ELSE UNCHANGED newRet
            /\ UNCHANGED newPc
    /\ UNCHANGED <<httpClient, site, nOptions>>
    /\ UNCHANGED newFrame

\* One turn of the option loop.
NewApplyOption ==
    /\ newPc = "options"
    /\ Len(applied) < nOptions
    /\ \E opt \in Options :
        LET r == ApplyOption(opt, client)
        IN  /\ applied' = Append(applied, opt)
            /\ optErrs' = Append(optErrs, r.err)
            /\ client' = r.c
            /\ IF r.err # Nil
                   THEN /\ newRet' = NewOptionFailed(r.c, r.err)
                        /\ newPc' = "done"
                   ELSE /\ UNCHANGED newRet
                        /\ UNCHANGED newPc
    /\ UNCHANGED <<httpClient, site, nOptions>>
    /\ UNCHANGED newFrame

\* The loop is over: New returns the client.
NewReturn ==
    /\ newPc = "options"
    /\ Len(applied) = nOptions
    /\ newRet' = NewResult(client, Nil)
    /\ newPc' = "done"
    /\ UNCHANGED <<httpClient, site, nOptions, client, applied, optErrs>>
    /\ UNCHANGED newFrame

NewNext == NewStart \/ NewApplyOption \/ NewReturn

\* New has not been called.
NewIdle ==
    /\ httpClient = NilHTTP
    /\ site = <<>>
    /\ nOptions = 0
    /\ newPc = "idle"
    /\ client = NilClient
    /\ applied = <<>>
    /\ optErrs = <<>>
    /\ newRet = NewResult(NilClient, Nil)

\* New(nil, "https://x/") has returned its client, and the client's bearer
\* token has since been set to bearer ("" leaves it unset).
NewReturned(bearer) ==
    /\ httpClient = NilHTTP
    /\ site = <<"x", "/">>
    /\ nOptions = 0
    /\ newPc = "done"
    /\ client = [kind |-> "client", HTTP |-> DefaultClient, Site |-> <<"x", "/">>,
                 OAuth |-> NilOAuth, Bearer |-> bearer]
    /\ applied = <<>>
    /\ optErrs = <<>>
    /\ newRet = NewResult(client, Nil)

\* ------------------------------------------------- OAuth2 token source

Callers == 1..MaxCallers

\* A token: its access token is the number of the exchange that issued it
\* (0 for the token the source was set up with).
Token(access, usable, hasRefresh) ==
    [access |-> access, usable |-> usable, hasRefresh |-> hasRefresh]

\* What Token() returns.
TokenResult(token, err) == [token |-> token, err |-> err]

NoToken == Token(-1, FALSE, FALSE)

TSInit ==
    /\ tsInitial \in {Token(0, u, r) : u \in BOOLEAN, r \in BOOLEAN}
    /\ tsHeld = tsInitial
    /\ tsMu = 0
    /\ tsPc = [p \in Callers |-> "idle"]
    /\ tsGot = [p \in Callers |-> TokenResult(NoToken, Nil)]
    /\ tsExchanges = 0
    /\ tsFailures = 0

\* No caller uses the token source.
TSIdle ==
    /\ tsInitial = NoToken
    /\ tsHeld = NoToken
    /\ tsMu = 0
    /\ tsPc = [p \in Callers |-> "off"]
    /\ tsGot = [p \in Callers |-> TokenResult(NoToken, Nil)]
    /\ tsExchanges = 0
    /\ tsFailures = 0

\* A token source without a critical section.
TSMutexFree_NoMutex == TRUE

\* The refresh critical section is free.
TSMutexFree == tsMu = 0

\* Caller p calls Token().
TSCall(p) ==
    /\ tsPc[p] = "idle"
    /\ tsPc' = [tsPc EXCEPT ![p] = "waiting"]
    /\ UNCHANGED <<tsInitial, tsHeld, tsMu, tsGot, tsExchanges, tsFailures>>
    /\ UNCHANGED tsFrame

\* Caller p enters the critical section.
TSLock(p) ==
    /\ tsPc[p] = "waiting"
    /\ TSMutexFree
    /\ tsMu' = p
    /\ tsPc' = [tsPc EXCEPT ![p] = "locked"]
    /\ UNCHANGED <<tsInitial, tsHeld, tsGot, tsExchanges, tsFailures>>
    /\ UNCHANGED tsFrame

\* Inside the critical section: a usable token is returned unchanged; with no
\* refresh token the failure is returned; otherwise the exchange starts.
TSCheck(p) ==
    /\ tsPc[p] = "locked"
    /\ \/ /\ tsHeld.usable
          /\ tsGot' = [tsGot EXCEPT ![p] = TokenResult(tsHeld, Nil)]
          /\ tsPc' = [tsPc EXCEPT ![p] = "done"]
          /\ tsMu' = 0
       \/ /\ ~tsHeld.usable
          /\ ~tsHeld.hasRefresh
          /\ tsGot' = [tsGot EXCEPT ![p] = TokenResult(NoToken, "ErrNoRefreshToken")]
          /\ tsPc' = [tsPc EXCEPT ![p] = "done"]
          /\ tsMu' = 0
       \/ /\ ~tsHeld.usable
          /\ tsHeld.hasRefresh
          /\ tsPc' = [tsPc EXCEPT ![p] = "exchanging"]
          /\ UNCHANGED <<tsGot, tsMu>>
    /\ UNCHANGED <<tsInitial, tsHeld, tsExchanges, tsFailures>>
    /\ UNCHANGED tsFrame

\* The refresh exchange of caller p succeeds: the held token is replaced and
\* returned.
TSExchangeSucceeds(p) ==
    /\ tsPc[p] = "exchanging"
    /\ tsExchanges' = tsExchanges + 1
    /\ tsHeld' = Token(tsExchanges + 1, TRUE, TRUE)
    /\ tsGot' = [tsGot EXCEPT ![p] = TokenResult(tsHeld', Nil)]
    /\ tsPc' = [tsPc EXCEPT ![p] = "done"]
    /\ tsMu' = 0
    /\ UNCHANGED <<tsInitial, tsFailures>>
    /\ UNCHANGED tsFrame

\* The refresh exchange of caller p fails: the failure is returned.
TSExchangeFails(p) ==
    /\ tsPc[p] = "exchanging"
    /\ tsExchanges' = tsExchanges + 1
    /\ tsFailures' = tsFailures + 1
    /\ tsGot' = [tsGot EXCEPT ![p] = TokenResult(NoToken, "ErrRefreshFailed")]
    /\ tsPc' = [tsPc EXCEPT ![p] = "done"]
    /\ tsMu' = 0
    /\ UNCHANGED <<tsInitial, tsHeld>>
    /\ UNCHANGED tsFrame

TSNext ==
    \E p \in Callers :
        \/ TSCall(p)
        \/ TSLock(p)
        \/ TSCheck(p)
        \/ TSExchangeSucceeds(p)
        \/ TSExchangeFails(p)

\* ------------------------------------------------------ request pipeline

NilRequest == [kind |-> "nil"]
NilResponse == [kind |-> "nil"]
NilEnvelope == [kind |-> "nil"]
NilStructure == [kind |-> "nil"]
NilBody == [kind |-> "nil"]

\* APIVersion
APIVersion == "3"

\* The versions an archival service may be constructed with: the one New
\* passes, and one holding a control character.
Versions == {APIVersion, CTL}

\* The Site of the client the operations run on: "https://x/".
OpSite == <<"x", "/">>

\* The index of the last "/" of s, 0 if it has none (strings.LastIndex).
RECURSIVE LastSlash(_)
LastSlash(s) ==
    IF s = <<>> THEN 0
    ELSE IF s[Len(s)] = "/" THEN Len(s)
    ELSE LastSlash(SubSeq(s, 1, Len(s) - 1))

\* The index of the first "/" of s, Len(s) + 1 if it has none.
RECURSIVE FirstSlash(_)
FirstSlash(s) ==
    IF s = <<>> THEN 1
    ELSE IF Head(s) = "/" THEN 1
    ELSE 1 + FirstSlash(Tail(s))

\* (*url.URL).ResolveReference for a base without query: a reference
\* starting with "/" replaces the base's path, any other reference replaces
\* what follows the last "/" of the base's path.
ResolveReference(base, rel) ==
    IF rel = <<>> THEN base
    ELSE IF Head(rel) = "/" THEN SubSeq(base, 1, FirstSlash(base) - 1) \o rel
    ELSE SubSeq(base, 1, LastSlash(base)) \o rel

\* The credential states of the client: basic-auth set or not, the bearer
\* token ("" when unset), the user agent ("" when unset).
AuthStates ==
    [HasBasicAuth : BOOLEAN, Bearer : {"", "accessA"}, UserAgent : {""}]

\* The headers, with the bearer token added whenever it is set.
RequestHeader_BearerAlways(contentType, body, a) ==
    [Accept |-> "application/json",
     ContentType |->
        IF contentType # "" THEN contentType
        ELSE IF body # NilBody THEN "application/json"
        ELSE "",
     XAtlassianToken |-> IF contentType # "" THEN "no-check" ELSE "",
     UserAgent |-> a.UserAgent,
     Authorization |->
        (IF a.HasBasicAuth THEN <<"Basic">> ELSE <<>>)
        \o (IF a.Bearer # "" THEN <<"Bearer " \o a.Bearer>> ELSE <<>>)]

\* The headers, with the explicit content type set only next to a body.
RequestHeader_ContentTypeNeedsBody(contentType, body, a) ==
    [Accept |-> "application/json",
     ContentType |->
        IF body = NilBody THEN ""
        ELSE IF contentType # "" THEN contentType
        ELSE "application/json",
     XAtlassianToken |-> IF contentType # "" THEN "no-check" ELSE "",
     UserAgent |-> a.UserAgent,
     Authorization |->
        (IF a.HasBasicAuth THEN <<"Basic">> ELSE <<>>)
        \o (IF a.Bearer # "" /\ ~a.HasBasicAuth
                THEN <<"Bearer " \o a.Bearer>>
                ELSE <<>>)]

\* The headers NewRequest sets.  Authorization holds every value added under
\* that name, in order.
RequestHeader(contentType, body, a) ==
    [Accept |-> "application/json",
     ContentType |->
        IF contentType # "" THEN contentType
        ELSE IF body # NilBody THEN "application/json"
        ELSE "",
     XAtlassianToken |-> IF contentType # "" THEN "no-check" ELSE "",
     UserAgent |-> a.UserAgent,
     Authorization |->
        (IF a.HasBasicAuth THEN <<"Basic">> ELSE <<>>)
        \o (IF a.Bearer # "" /\ ~a.HasBasicAuth
                THEN <<"Bearer " \o a.Bearer>>
                ELSE <<>>)]

\* NewRequest building a request for a nil context.
NewRequest_NilContextAccepted(siteURL, a, context, method, urlStr, contentType, body) ==
    IF URLParseFails(urlStr)
        THEN [req |-> NilRequest, err |-> "ErrURLParse"]
    ELSE IF body.kind = "unencodable"
        THEN [req |-> NilRequest, err |-> "ErrJSONEncode"]
    ELSE [req |-> [kind |-> "request",
                   Method |-> method,
                   URL |-> ResolveReference(siteURL, urlStr),
                   Body |-> body,
                   Header |-> RequestHeader(contentType, body, a)],
          err |-> Nil]

\* Client.NewRequest(ctx, method, urlStr, contentType, body) on the client
\* of Site siteURL and credential state a: the request, or the error of
\* url.Parse, of the JSON encoder or of http.NewRequestWithContext (which
\* rejects a nil context).
NewRequest(siteURL, a, context, method, urlStr, contentType, body) ==
    IF URLParseFails(urlStr)
        THEN [req |-> NilRequest, err |-> "ErrURLParse"]
    ELSE IF body.kind = "unencodable"
        THEN [req |-> NilRequest, err |-> "ErrJSONEncode"]
    ELSE IF context = Nil
        THEN [req |-> NilRequest, err |-> "ErrNilContext"]
    ELSE [req |-> [kind |-> "request",
                   Method |-> method,
                   URL |-> ResolveReference(siteURL, urlStr),
                   Body |-> body,
                   Header |-> RequestHeader(contentType, body, a)],
          err |-> Nil]

\* ----------------------------------------------------- response classifier

\* http.StatusNotFound, StatusUnauthorized, StatusInternalServerError,
\* StatusBadRequest
StatusNotFound == 404
StatusUnauthorized == 401
StatusInternalServerError == 500
StatusBadRequest == 400

\* The status codes a transport may answer with.
Statuses == {199, 200, 204, 299, 300, 400, 401, 403, 404, 500}

\* Response bodies: empty, a JSON object for the synchronous result, an
\* empty JSON object, the location of a task, a path with a trailing
\* separator, a lone separator, and text that is no JSON.
BodyReport == <<"{\"numberOfIssuesUpdated\":1}">>
BodyEmptyObject == <<"{}">>
BodyTaskLocation == <<"x", "/", "rest", "/", "api", "/", "3", "/", "task", "/", "10042">>
Bodies ==
    { <<>>, BodyReport, BodyEmptyObject, BodyTaskLocation,
      <<"task", "/", "10043", "/">>, <<"/">>, <<"<html>">> }

\* The URL a redirect to the task's location resolves to.
TaskURL == OpSite \o <<"rest", "/", "api", "/", "3", "/", "task", "/", "10042">>

\* Every status taken for a success.
WasSuccess_AnyStatus(status) == TRUE

\* wasSuccess with the upper limit included.
WasSuccess_Includes300(status) == status >= 200 /\ status <= 300

\* wasSuccess
WasSuccess(status) == status >= 200 /\ status < 300

\* The switch without its case for http.StatusUnauthorized.
StatusError_NoUnauthorizedCase(status) ==
    CASE status = StatusNotFound -> "ErrNotFound"
      [] status = StatusInternalServerError -> "ErrInternal"
      [] status = StatusBadRequest -> "ErrBadRequest"
      [] OTHER -> "ErrInvalidStatusCode"

\* The switch on the status of a response that was no success.
StatusError(status) ==
    CASE status = StatusNotFound -> "ErrNotFound"
      [] status = StatusUnauthorized -> "ErrUnauthorized"
      [] status = StatusInternalServerError -> "ErrInternal"
      [] status = StatusBadRequest -> "ErrBadRequest"
      [] OTHER -> "ErrInvalidStatusCode"

\* json.Unmarshal taking the empty body for an empty object.
Unmarshal_EmptyBodyOK(body, dest) ==
    CASE body = BodyReport -> [value |-> "numberOfIssuesUpdated=1", err |-> Nil]
      [] body \in {BodyEmptyObject, <<>>} -> [value |-> dest.value, err |-> Nil]
      [] OTHER -> [value |-> dest.value, err |-> "ErrJSONDecode"]

\* json.Unmarshal(body, &structure) for a destination struct: the value the
\* destination holds afterwards, or the error for a body that is no JSON
\* (the empty body included), which leaves the destination as it was.
Unmarshal(body, dest) ==
    CASE body = BodyReport -> [value |-> "numberOfIssuesUpdated=1", err |-> Nil]
      [] body = BodyEmptyObject -> [value |-> dest.value, err |-> Nil]
      [] OTHER -> [value |-> dest.value, err |-> "ErrJSONDecode"]

\* path.Base: "." for the empty path; trailing separators are stripped;
\* what follows the last separator is returned; "/" for a path of
\* separators only.
RECURSIVE StripTrailingSlashes(_)
StripTrailingSlashes(s) ==
    IF s # <<>> /\ s[Len(s)] = "/"
        THEN StripTrailingSlashes(SubSeq(s, 1, Len(s) - 1))
        ELSE s

PathBase(s) ==
    IF s = <<>> THEN <<".">>
    ELSE LET stripped == StripTrailingSlashes(s)
             last == SubSeq(stripped, LastSlash(stripped) + 1, Len(stripped))
         IN  IF last = <<>> THEN <<"/">> ELSE last

\* What Call and processResponse return.
CallResult(envelope, err) == [res |-> envelope, err |-> err]

\* ------------------------------------------------------ issue archival

Ops == {"Preserve", "PreserveByJQL", "Restore", "Export"}

\* The arguments of an operation: an issue list, a JQL string, an export
\* payload (nil or not).
OpArgs(name) ==
    CASE name \in {"Preserve", "Restore"} -> { <<>>, <<"KP-1">>, <<"KP-1", "KP-2">> }
      [] name = "PreserveByJQL" -> { "", "project = KP" }
      [] name = "Export" -> { "nilPayload", "payload" }

\* The validation without the check of the JQL string.
ValidationError_NoJQLCheck(name, arg) ==
    CASE name \in {"Preserve", "Restore"} /\ arg = <<>> -> "ErrNoIssuesSlice"
      [] OTHER -> Nil

\* The operation refuses its argument before it builds a request.
ValidationError(name, arg) ==
    CASE name \in {"Preserve", "Restore"} /\ arg = <<>> -> "ErrNoIssuesSlice"
      [] name = "PreserveByJQL" /\ arg = "" -> "ErrNoJQL"
      [] OTHER -> Nil

\* fmt.Sprintf of the operation's endpoint for the service's version v.
Endpoint(name, v) ==
    CASE name \in {"Preserve", "PreserveByJQL"} ->
            <<"rest", "/", "api", "/", v, "/", "issue", "/", "archive">>
      [] name = "Restore" ->
            <<"rest", "/", "api", "/", v, "/", "issue", "/", "unarchive">>
      [] name = "Export" ->
            <<"rest", "/", "api", "/", v, "/", "issues", "/", "archive", "/", "export">>

\* The HTTP method the operation uses.
Method(name) == IF name = "PreserveByJQL" THEN "POST" ELSE "PUT"

\* The body handed to NewRequest.  A nil *IssueArchivalExportPayloadScheme is
\* a non-nil interface value, encoded as JSON null.
Payload(name, arg) ==
    IF name = "Export" /\ arg = "nilPayload"
        THEN [kind |-> "typedNil"]
        ELSE [kind |-> "value", arg |-> arg]

\* The destination handed to Call: a new report for Preserve and Restore,
\* nil for PreserveByJQL and Export.
Destination(name) ==
    IF name \in {"Preserve", "Restore"}
        THEN [kind |-> "ptr", value |-> "zero"]
        ELSE NilStructure

\* What an operation returns: result is the report of Preserve and Restore,
\* taskID the string of PreserveByJQL and Export.
OpResult(result, taskID, envelope, err) ==
    [result |-> result, taskID |-> taskID, response |-> envelope, err |-> err]

\* The task ID read from the resolved URL of the response.
PreserveByJQLTaskID_FromEndpoint(envelope) == PathBase(envelope.Endpoint)

\* The task ID PreserveByJQL returns on success.
PreserveByJQLTaskID(envelope) == PathBase(envelope.Bytes)

\* The task ID Export returns on success.
ExportTaskID(envelope) == <<>>

\* No call has returned yet.
NoCallResult == CallResult(NilEnvelope, Nil)

NoOpResult == OpResult(NilStructure, <<>>, NilEnvelope, Nil)

OpInit ==
    /\ opName \in Ops
    /\ opArg \in OpArgs(opName)
    /\ version \in Versions
    /\ ctx \in {Nil, "ctx"}
    /\ auth \in AuthStates
    /\ opPc = "start"
    /\ request = NilRequest
    /\ structure = NilStructure
    /\ response = NilResponse
    /\ res = NilEnvelope
    /\ pending = NoCallResult
    /\ callRet = NoCallResult
    /\ events = <<>>
    /\ opRet = NoOpResult

\* No operation runs.
OpIdle ==
    /\ opName = Nil
    /\ opArg = Nil
    /\ version = Nil
    /\ ctx = Nil
    /\ auth = [HasBasicAuth |-> FALSE, Bearer |-> "", UserAgent |-> ""]
    /\ opPc = "idle"
    /\ request = NilRequest
    /\ structure = NilStructure
    /\ response = NilResponse
    /\ res = NilEnvelope
    /\ pending = NoCallResult
    /\ callRet = NoCallResult
    /\ events = <<>>
    /\ opRet = NoOpResult

\* The operation up to its call of Call: the argument is validated, then the
\* request is built; either failure is returned with a nil envelope.
OpBegin ==
    /\ opPc = "start"
    /\ LET invalid == ValidationError(opName, opArg)
           built == NewRequest(client.Site, auth, ctx, Method(opName),
                               Endpoint(opName, version), "", Payload(opName, opArg))
       IN  \/ /\ invalid # Nil
              /\ opRet' = OpResult(NilStructure, <<>>, NilEnvelope, invalid)
              /\ opPc' = "done"
              /\ UNCHANGED <<request, structure, events>>
           \/ /\ invalid = Nil
              /\ built.err # Nil
              /\ events' = Append(events, "NewRequest")
              /\ opRet' = OpResult(NilStructure, <<>>, NilEnvelope, built.err)
              /\ opPc' = "done"
              /\ UNCHANGED <<request, structure>>
           \/ /\ invalid = Nil
              /\ built.err = Nil
              /\ events' = Append(events, "NewRequest")
              /\ request' = built.req
              /\ structure' = Destination(opName)
              /\ opPc' = "do"
              /\ UNCHANGED opRet
    /\ UNCHANGED <<opName, opArg, version, ctx, auth, response, res, pending, callRet>>
    /\ UNCHANGED opFrame

\* Call sending the request again when the transport failed.
CallDo_RetriesOnTransportError ==
    /\ opPc = "do"
    /\ events' = Append(events, "Do")
    /\ \/ /\ opPc' = "do"
          /\ UNCHANGED <<response, callRet>>
       \/ \E status \in Statuses, body \in Bodies, readFails \in BOOLEAN,
             url \in {request.URL, TaskURL} :
             /\ response' = [kind |-> "response", StatusCode |-> status,
                             Body |-> body, ReadFails |-> readFails,
                             RequestURL |-> url, RequestMethod |-> request.Method]
             /\ opPc' = "read"
             /\ UNCHANGED callRet
    /\ UNCHANGED <<opName, opArg, version, ctx, auth, request, structure, res, pending, opRet>>
    /\ UNCHANGED opFrame

\* Call: c.HTTP.Do(request).  The transport fails, or answers with a status
\* and a body for the request or for the location it was redirected to; the
\* body may fail while it is read.
CallDo ==
    /\ opPc = "do"
    /\ events' = Append(events, "Do")
    /\ \/ /\ callRet' = CallResult(NilEnvelope, "ErrTransport")
          /\ opPc' = "finish"
          /\ UNCHANGED response
       \/ \E status \in Statuses, body \in Bodies, readFails \in BOOLEAN,
             url \in {request.URL, TaskURL} :
             /\ response' = [kind |-> "response", StatusCode |-> status,
                             Body |-> body, ReadFails |-> readFails,
                             RequestURL |-> url, RequestMethod |-> request.Method]
             /\ opPc' = "read"
             /\ UNCHANGED callRet
    /\ UNCHANGED <<opName, opArg, version, ctx, auth, request, structure, res, pending, opRet>>
    /\ UNCHANGED opFrame

\* processResponse returning no envelope when io.ReadAll failed.
ReadFailed_NilEnvelope(envelope, err) == CallResult(NilEnvelope, err)

\* processResponse's return when io.ReadAll failed.
ReadFailed(envelope, err) == CallResult(envelope, err)

\* processResponse taking the envelope's endpoint from the request that was
\* built.
PRReadAll_EndpointOfBuiltRequest ==
    /\ opPc = "read"
    /\ events' = Append(events, "ReadAll")
    /\ LET made == [kind |-> "envelope", Code |-> response.StatusCode,
                    Endpoint |-> request.URL,
                    Method |-> response.RequestMethod, Bytes |-> <<>>]
       IN  IF response.ReadFails
               THEN /\ res' = made
                    /\ pending' = ReadFailed(made, "ErrBodyRead")
                    /\ opPc' = "close"
               ELSE /\ res' = [made EXCEPT !.Bytes = response.Body]
                    /\ opPc' = "classify"
                    /\ UNCHANGED pending
    /\ UNCHANGED <<opName, opArg, version, ctx, auth, request, structure, response, callRet, opRet>>
    /\ UNCHANGED opFrame

\* processResponse: the close of the body is deferred, the envelope is made
\* and the body is read with io.ReadAll; a read error ends the function.
PRReadAll ==
    /\ opPc = "read"
    /\ events' = Append(events, "ReadAll")
    /\ LET made == [kind |-> "envelope", Code |-> response.StatusCode,
                    Endpoint |-> response.RequestURL,
                    Method |-> response.RequestMethod, Bytes |-> <<>>]
       IN  IF response.ReadFails
               THEN /\ res' = made
                    /\ pending' = ReadFailed(made, "ErrBodyRead")
                    /\ opPc' = "close"
               ELSE /\ res' = [made EXCEPT !.Bytes = response.Body]
                    /\ opPc' = "classify"
                    /\ UNCHANGED pending
    /\ UNCHANGED <<opName, opArg, version, ctx, auth, request, structure, response, callRet, opRet>>
    /\ UNCHANGED opFrame

\* processResponse: the status is classified.
PRClassify ==
    /\ opPc = "classify"
    /\ events' = Append(events, "Classify")
    /\ IF WasSuccess(response.StatusCode)
           THEN /\ opPc' = "decode"
                /\ UNCHANGED pending
           ELSE /\ pending' = CallResult(res, StatusError(response.StatusCode))
                /\ opPc' = "close"
    /\ UNCHANGED <<opName, opArg, version, ctx, auth, request, structure, response, res, callRet, opRet>>
    /\ UNCHANGED opFrame

\* processResponse: the body is decoded into a destination that is not nil.
PRDecode ==
    /\ opPc = "decode"
    /\ IF structure = NilStructure
           THEN /\ pending' = CallResult(res, Nil)
                /\ UNCHANGED <<structure, events>>
           ELSE LET decoded == Unmarshal(res.Bytes, structure)
                IN  /\ events' = Append(events, "Unmarshal")
                    /\ structure' = [structure EXCEPT !.value = decoded.value]
                    /\ pending' = CallResult(res, decoded.err)
    /\ opPc' = "close"
    /\ UNCHANGED <<opName, opArg, version, ctx, auth, request, response, res, callRet, opRet>>
    /\ UNCHANGED opFrame

\* processResponse returning without the deferred close.
PRClose_WithoutClose ==
    /\ opPc = "close"
    /\ callRet' = pending
    /\ opPc' = "finish"
    /\ UNCHANGED <<opName, opArg, version, ctx, auth, request, structure, response,
                   res, pending, events, opRet>>
    /\ UNCHANGED opFrame

\* processResponse returns: the deferred response.Body.Close() runs and Call
\* returns what processResponse returned.
PRClose ==
    /\ opPc = "close"
    /\ events' = Append(events, "Close")
    /\ callRet' = pending
    /\ opPc' = "finish"
    /\ UNCHANGED <<opName, opArg, version, ctx, auth, request, structure, response, res, pending, opRet>>
    /\ UNCHANGED opFrame

\* The operation returning its result next to the error of Call.
OpFinish_ResultWithError ==
    /\ opPc = "finish"
    /\ opRet' =
          CASE opName \in {"Preserve", "Restore"} ->
                    OpResult(structure, <<>>, callRet.res, callRet.err)
            [] opName = "PreserveByJQL" ->
                    OpResult(NilStructure, PreserveByJQLTaskID(callRet.res),
                             callRet.res, callRet.err)
            [] opName = "Export" ->
                    OpResult(NilStructure, ExportTaskID(callRet.res),
                             callRet.res, callRet.err)
    /\ opPc' = "done"
    /\ UNCHANGED <<opName, opArg, version, ctx, auth, request, structure, response,
                   res, pending, callRet, events>>
    /\ UNCHANGED opFrame

\* The operation returns what Call gave it.
OpFinish ==
    /\ opPc = "finish"
    /\ opRet' =
          IF callRet.err # Nil
              THEN OpResult(NilStructure, <<>>, callRet.res, callRet.err)
          ELSE CASE opName \in {"Preserve", "Restore"} ->
                        OpResult(structure, <<>>, callRet.res, Nil)
                 [] opName = "PreserveByJQL" ->
                        OpResult(NilStructure, PreserveByJQLTaskID(callRet.res),
                                 callRet.res, Nil)
                 [] opName = "Export" ->
                        OpResult(NilStructure, ExportTaskID(callRet.res),
                                 callRet.res, Nil)
    /\ opPc' = "done"
    /\ UNCHANGED <<opName, opArg, version, ctx, auth, request, structure, response, res,
                   pending, callRet, events>>
    /\ UNCHANGED opFrame

OpNext ==
    \/ OpBegin
    \/ CallDo
    \/ PRReadAll
    \/ PRClassify
    \/ PRDecode
    \/ PRClose
    \/ OpFinish

\* --------------------------------------------- NewRequest called directly

\* The arguments of a direct call of NewRequest: a relative reference, an
\* absolute path or a reference holding a control character; no content
\* type or an explicit one; no body, a value, a nil pointer, a *bytes.Buffer
\* or a value the JSON encoder refuses.
RequestArgs ==
    [method : {"GET", "PUT"},
     urlStr : { <<"rest", "/", "a">>, <<"/", "rest", "/", "a">>, <<"rest", CTL>> },
     contentType : {"", "multipart/form-data"},
     body : { NilBody, [kind |-> "value", arg |-> "payload"], [kind |-> "typedNil"],
              [kind |-> "buffer"], [kind |-> "unencodable"] }]

RequestInit ==
    /\ opName = "NewRequest"
    /\ opArg \in RequestArgs
    /\ version = Nil
    /\ ctx \in {Nil, "ctx"}
    /\ auth \in AuthStates
    /\ opPc = "start"
    /\ request = NilRequest
    /\ structure = NilStructure
    /\ response = NilResponse
    /\ res = NilEnvelope
    /\ pending = NoCallResult
    /\ callRet = NoCallResult
    /\ events = <<>>
    /\ opRet = NoOpResult

\* The call returns the request or the error.
BuildRequest ==
    /\ opPc = "start"
    /\ opName = "NewRequest"
    /\ LET built == NewRequest(client.Site, auth, ctx, opArg.method, opArg.urlStr,
                               opArg.contentType, opArg.body)
       IN  /\ request' = built.req
           /\ opRet' = OpResult(NilStructure, <<>>, NilEnvelope, built.err)
    /\ events' = Append(events, "NewRequest")
    /\ opPc' = "done"
    /\ UNCHANGED <<opName, opArg, version, ctx, auth, structure, response, res,
                   pending, callRet>>
    /\ UNCHANGED opFrame

\* ------------------------- NewRequest next to a thread writing credentials

\* NewRequest has built its request up to the credentials (lines 540-577)
\* and is about to read them; another thread may write them meanwhile.
RaceInit ==
    /\ opName = "NewRequest"
    /\ opArg = Nil
    /\ version = Nil
    /\ ctx = "ctx"
    /\ auth \in AuthStates
    /\ opPc = "HasBasicAuth"
    /\ request = [kind |-> "request", Method |-> "GET",
                  URL |-> ResolveReference(<<"x", "/">>, <<"rest", "/", "a">>),
                  Body |-> NilBody,
                  Header |-> [Accept |-> "application/json", ContentType |-> "",
                              XAtlassianToken |-> "", UserAgent |-> "",
                              Authorization |-> <<>>]]
    /\ structure = NilStructure
    /\ response = NilResponse
    /\ res = NilEnvelope
    /\ pending = NoCallResult
    /\ callRet = NoCallResult
    /\ events = <<>>
    /\ opRet = NoOpResult

\* if c.Auth.HasBasicAuth() { req.SetBasicAuth(c.Auth.GetBasicAuth()) }
RaceHasBasicAuth ==
    /\ opPc = "HasBasicAuth"
    /\ request' = IF auth.HasBasicAuth
                      THEN [request EXCEPT !.Header.Authorization = <<"Basic">>]
                      ELSE request
    /\ opPc' = "GetBearerToken"
    /\ UNCHANGED <<opName, opArg, version, ctx, auth, structure, response, res,
                   pending, callRet, events, opRet>>
    /\ UNCHANGED opFrame

\* c.Auth.GetBearerToken() != "" : the first read of the bearer token.
RaceGetBearerToken ==
    /\ opPc = "GetBearerToken"
    /\ opPc' = IF auth.Bearer # "" THEN "HasBasicAuthAgain" ELSE "return"
    /\ UNCHANGED <<opName, opArg, version, ctx, auth, request, structure, response,
                   res, pending, callRet, events, opRet>>
    /\ UNCHANGED opFrame

\* && !c.Auth.HasBasicAuth() : the second read of the basic-auth flag.
RaceHasBasicAuthAgain ==
    /\ opPc = "HasBasicAuthAgain"
    /\ opPc' = IF auth.HasBasicAuth THEN "return" ELSE "AddBearer"
    /\ UNCHANGED <<opName, opArg, version, ctx, auth, request, structure, response,
                   res, pending, callRet, events, opRet>>
    /\ UNCHANGED opFrame

\* req.Header.Add("Authorization", "Bearer " + c.Auth.GetBearerToken()) : the
\* second read of the bearer token.
RaceAddBearer ==
    /\ opPc = "AddBearer"
    /\ request' = [request EXCEPT !.Header.Authorization =
                                     Append(@, "Bearer " \o auth.Bearer)]
    /\ opPc' = "return"
    /\ UNCHANGED <<opName, opArg, version, ctx, auth, structure, response, res,
                   pending, callRet, events, opRet>>
    /\ UNCHANGED opFrame

\* return req, nil
RaceReturn ==
    /\ opPc = "return"
    /\ opPc' = "done"
    /\ UNCHANGED <<opName, opArg, version, ctx, auth, request, structure, response,
                   res, pending, callRet, events, opRet>>
    /\ UNCHANGED opFrame

\* The other thread: SetBasicAuth(user, pass).
RaceSetBasicAuth ==
    /\ opName = "NewRequest"
    /\ opPc \notin {"start", "done"}
    /\ Len(events) < MaxCredentialWrites
    /\ ~auth.HasBasicAuth
    /\ auth' = [auth EXCEPT !.HasBasicAuth = TRUE]
    /\ events' = Append(events, "SetBasicAuth")
    /\ UNCHANGED <<opName, opArg, version, ctx, opPc, request, structure, response,
                   res, pending, callRet, opRet>>
    /\ UNCHANGED opFrame

\* The other thread: SetBearerToken(token), the empty token included.  The
\* client's bearer token is the one of its credential state.
RaceSetBearerToken ==
    /\ opName = "NewRequest"
    /\ opPc \notin {"start", "done"}
    /\ Len(events) < MaxCredentialWrites
    /\ \E token \in {"", "accessA"} :
          /\ token # auth.Bearer
          /\ auth' = [auth EXCEPT !.Bearer = token]
          /\ client' = [client EXCEPT !.Bearer = token]
          /\ newRet' = [newRet EXCEPT !.client.Bearer = token]
    /\ events' = Append(events, "SetBearerToken")
    /\ UNCHANGED <<opName, opArg, version, ctx, opPc, request, structure, response,
                   res, pending, callRet, opRet>>
    /\ UNCHANGED <<httpClient, site, nOptions, newPc, applied, optErrs>>
    /\ UNCHANGED tsVars

\* ------------------------------------- an operation on the client New built

\* An archival operation is called on the client New returned.  The service
\* was constructed with APIVersion; the bearer token is the one the options
\* left, and basic-auth may have been set since.
OpCall ==
    /\ newPc = "done"
    /\ newRet.err = Nil
    /\ newRet.client # NilClient
    /\ Len(applied) <= MaxOptsBeforeOp
    /\ opPc = "idle"
    /\ \E name \in Ops :
        \E arg \in OpArgs(name), context \in {Nil, "ctx"},
           a \in {x \in AuthStates : x.Bearer = client.Bearer} :
            /\ opName' = name
            /\ opArg' = arg
            /\ ctx' = context
            /\ auth' = a
    /\ version' = APIVersion
    /\ opPc' = "start"
    /\ UNCHANGED <<request, structure, response, res, pending, callRet, events, opRet>>
    /\ UNCHANGED opFrame

\* NewRequest is called on the client New returned.  The bearer token is the
\* one the options left, and basic-auth may have been set since.
RequestCall ==
    /\ newPc = "done"
    /\ newRet.err = Nil
    /\ newRet.client # NilClient
    /\ Len(applied) <= MaxOptsBeforeRequest
    /\ opPc = "idle"
    /\ \E args \in RequestArgs, context \in {Nil, "ctx"},
          a \in {x \in AuthStates : x.Bearer = client.Bearer} :
            /\ opArg' = args
            /\ ctx' = context
            /\ auth' = a
    /\ opName' = "NewRequest"
    /\ opPc' = "start"
    /\ UNCHANGED <<version, request, structure, response, res, pending, callRet,
                   events, opRet>>
    /\ UNCHANGED opFrame

\* ------------------------------------------------------- specifications

\* Client construction.
Init == NewInit /\ TSIdle /\ OpIdle

Next == NewNext

Spec == Init /\ [][Next]_vars

\* Concurrent callers of the token source.
TokenInit == NewIdle /\ TSInit /\ OpIdle

TokenNext == TSNext

TokenSpec == TokenInit /\ [][TokenNext]_vars

\* One archival operation, from its call to its return.
CallInit == OpInit /\ TSIdle /\ NewReturned(auth.Bearer)

CallNext == OpNext

CallSpec == CallInit /\ [][CallNext]_vars

\* One direct call of NewRequest on a built client.
RequestSpecInit == RequestInit /\ TSIdle /\ NewReturned(auth.Bearer)

RequestNext == BuildRequest

RequestSpec == RequestSpecInit /\ [][RequestNext]_vars

\* The credential reads of one NewRequest, interleaved with the credential
\* writes of another thread.
RaceSpecInit == RaceInit /\ TSIdle /\ NewReturned(auth.Bearer)

RaceNext ==
    \/ RaceHasBasicAuth
    \/ RaceGetBearerToken
    \/ RaceHasBasicAuthAgain
    \/ RaceAddBearer
    \/ RaceReturn
    \/ RaceSetBasicAuth
    \/ RaceSetBearerToken

RaceSpec == RaceSpecInit /\ [][RaceNext]_vars

\* New, then one direct call of NewRequest on the client it returned.
BuildInit == NewInit /\ TSIdle /\ OpIdle

BuildNext == NewNext \/ RequestCall \/ BuildRequest

BuildSpec == BuildInit /\ [][BuildNext]_vars

\* New, then one archival operation on the client it returned.
LifeInit == NewInit /\ TSIdle /\ OpIdle

LifeNext == NewNext \/ OpCall \/ OpNext

LifeSpec == LifeInit /\ [][LifeNext]_vars

\* ------------------------------------------------- claims on construction

InstallsOAuth(opt) == opt.kind \in {"WithOAuth", "WithOAuthWithAutoRenewal"}

\* Option i of the list is WithAutoRenewalToken and no earlier option of the
\* list installs OAuth.
RenewalWithoutOAuthAt(i) ==
    /\ applied[i].kind = "WithAutoRenewalToken"
    /\ \A j \in 1..(i - 1) : ~InstallsOAuth(applied[j])

\* The errors New reports for its configuration.
ConfigErrors ==
    {"ErrNoSite", "ErrURLParse", "ErrOAuthConfigNil", "ErrOAuthServiceFailed",
     "ErrTokenNil", "ErrOAuthNotConfigured", "ErrTokenSourcesFailed",
     "ErrTokenStoreNil", "ErrTokenCallbackNil"}

\* C1: when the option list applies WithAutoRenewalToken at a position with
\* no earlier option installing OAuth, New has failed with a configuration
\* error and returned no client; and New returns a client only after it has
\* invoked the whole list, so no such position is skipped.
C1_RenewalWithoutOAuthFails ==
    /\ \A i \in 1..Len(applied) :
          RenewalWithoutOAuthAt(i) =>
              /\ newPc = "done"
              /\ newRet.client = NilClient
              /\ newRet.err \in ConfigErrors
    /\ (newPc = "done" /\ newRet.err = Nil) => Len(applied) = nOptions

\* C1's case: a non-nil token given to WithAutoRenewalToken as the second
\* option, after a token store and no OAuth; New has returned.
C1_Witness ==
    /\ newPc = "done"
    /\ Len(applied) = 2
    /\ applied[1] = Opt("WithTokenStore", Nil, Nil, "s1")
    /\ applied[2] = Opt("WithAutoRenewalToken", Nil, "tokA", Nil)
    /\ newRet.err = "ErrOAuthNotConfigured"

\* The arguments an option needs are all non-nil.
NonNilArguments(opt) ==
    CASE opt.kind = "WithOAuth" -> opt.config # Nil
      [] opt.kind = "WithAutoRenewalToken" -> opt.token # Nil
      [] opt.kind = "WithOAuthWithAutoRenewal" -> opt.config # Nil /\ opt.token # Nil
      [] opt.kind = "WithTokenStore" -> opt.hook # Nil
      [] opt.kind = "WithTokenCallback" -> opt.hook # Nil

\* The options invoked so far have non-nil arguments and each
\* WithAutoRenewalToken among them comes after an option installing OAuth.
ValidOptionSequence ==
    \A i \in 1..Len(applied) :
        /\ NonNilArguments(applied[i])
        /\ ~RenewalWithoutOAuthAt(i)

\* A site New accepts.
ValidSite == site # <<>> /\ ~URLParseFails(site)

\* C2: given a site New accepts, an option list with non-nil arguments that
\* installs OAuth before every auto-renewal makes New return a non-nil client
\* and a nil error (and New does not stop before the end of the list).
C2_OAuthBeforeRenewalSucceeds ==
    (ValidSite /\ ValidOptionSequence) =>
        /\ newPc = "done" => (newRet.client # NilClient /\ newRet.err = Nil)
        /\ \A i \in 1..Len(optErrs) : optErrs[i] = Nil

\* C2's case: WithOAuth, then a token store, then WithAutoRenewalToken; New
\* has returned the client, whose HTTP client is the OAuth transport.
C2_Witness ==
    /\ newPc = "done"
    /\ Len(applied) = 3
    /\ applied[1].kind = "WithOAuth"
    /\ applied[2].kind = "WithTokenStore"
    /\ applied[3].kind = "WithAutoRenewalToken"
    /\ newRet.err = Nil
    /\ newRet.client.HTTP.kind = "oauth"

\* C3: New returns (client, nil) or (nil, error), never both and never
\* neither; when an option returned an error, New has returned that error
\* and no client.
C3_NewAllOrNothing ==
    /\ newPc = "done" =>
          \/ (newRet.client # NilClient /\ newRet.err = Nil)
          \/ (newRet.client = NilClient /\ newRet.err # Nil)
    /\ newPc # "done" => newRet = NewResult(NilClient, Nil)
    /\ \A i \in 1..Len(optErrs) :
          optErrs[i] # Nil =>
              /\ newPc = "done"
              /\ newRet = NewResult(NilClient, optErrs[i])

\* C3's case: an option fails after an earlier one has configured the
\* client (OAuth is installed); New has returned.
C3_Witness ==
    /\ newPc = "done"
    /\ Len(optErrs) = 2
    /\ optErrs[1] = Nil
    /\ optErrs[2] # Nil
    /\ client.kind = "client"
    /\ client.OAuth # NilOAuth
    /\ newRet.client = NilClient

\* WithOAuth(config) and then WithAutoRenewalToken(token), as New's loop
\* applies two options one after the other: the second is not invoked when
\* the first returns an error.
BackToBack(config, token, c) ==
    LET first == ApplyOption(Opt("WithOAuth", config, Nil, Nil), c)
    IN  IF first.err # Nil
            THEN first
            ELSE ApplyOption(Opt("WithAutoRenewalToken", Nil, token, Nil), first.c)

\* C4: on every client New can have built so far, and for every nil or
\* non-nil config and token, WithOAuthWithAutoRenewal(config, token) leaves
\* the same HTTP client, OAuth service and bearer token and returns the same
\* error as WithOAuth(config) then WithAutoRenewalToken(token); and when the
\* OAuth step fails it leaves the HTTP client and the bearer token alone.
C4_CompositeEqualsBackToBack ==
    client.kind = "client" =>
        \A config \in Configs, token \in Tokens :
            LET composite == WithOAuthWithAutoRenewal(config, token, client)
                steps == BackToBack(config, token, client)
            IN  /\ composite.err = steps.err
                /\ composite.c.HTTP = steps.c.HTTP
                /\ composite.c.OAuth = steps.c.OAuth
                /\ composite.c.Bearer = steps.c.Bearer
                /\ WithOAuth(config, client).err # Nil =>
                      /\ composite.c.HTTP = client.HTTP
                      /\ composite.c.Bearer = client.Bearer
                      /\ composite.err = WithOAuth(config, client).err

\* C4's case: the composite option has been applied, with a non-nil config
\* and token, to a client whose HTTP client a token store had wrapped, and
\* has installed the OAuth transport.
C4_Witness ==
    /\ Len(applied) = 2
    /\ applied[1].kind = "WithTokenStore"
    /\ applied[2] = Opt("WithOAuthWithAutoRenewal", "cfg1", "tokA", Nil)
    /\ optErrs[2] = Nil
    /\ client.HTTP.kind = "oauth"
    /\ client.Bearer = "accessA"

\* ------------------------------------------------ claims on the token source

Count(e) == Cardinality({i \in 1..Len(events) : events[i] = e})

Index(e) ==
    IF Count(e) = 0 THEN 0
    ELSE CHOOSE i \in 1..Len(events) :
            /\ events[i] = e
            /\ \A j \in 1..(i - 1) : events[j] # e

\* Call has returned, and the transport had given it a response.
CallReturned == opPc \in {"finish", "done"} /\ Count("Do") = 1

GotResponse == response # NilResponse

Is2xx(status) == status \in 200..299

\* The fixed error kind of a status that is no success.
FixedErrorKind(status) ==
    IF status = 404 THEN "ErrNotFound"
    ELSE IF status = 401 THEN "ErrUnauthorized"
    ELSE IF status = 500 THEN "ErrInternal"
    ELSE IF status = 400 THEN "ErrBadRequest"
    ELSE "ErrInvalidStatusCode"

\* The envelope describes the response and holds its whole body.
Populated(envelope) ==
    /\ envelope # NilEnvelope
    /\ envelope.Code = response.StatusCode
    /\ envelope.Endpoint = response.RequestURL
    /\ envelope.Method = response.RequestMethod
    /\ envelope.Bytes = response.Body

\* C6, as amended: for every response with a status outside [200,300) whose
\* body is read without error, Call returns the populated envelope with the
\* fixed error kind of the status: 404 ErrNotFound, 401 ErrUnauthorized,
\* 500 ErrInternal, 400 ErrBadRequest, any other ErrInvalidStatusCode.
C6_Non2xxFixedErrorKind ==
    (CallReturned /\ GotResponse /\ ~Is2xx(response.StatusCode)
        /\ ~response.ReadFails) =>
        /\ Populated(callRet.res)
        /\ callRet.err = FixedErrorKind(response.StatusCode)

\* C6's case: a 401 answer with a body has been classified and returned.
C6_Witness ==
    /\ CallReturned
    /\ GotResponse
    /\ response.StatusCode = 401
    /\ ~response.ReadFails
    /\ response.Body = <<"<html>">>
    /\ callRet.err = "ErrUnauthorized"
    /\ callRet.res.Bytes = <<"<html>">>

\* C6 as stated: for every response with a status outside [200,300), Call
\* returns a non-nil envelope with the fixed error kind of the status.
C6_Original_EveryNon2xxResponse ==
    (CallReturned /\ GotResponse /\ ~Is2xx(response.StatusCode)) =>
        /\ callRet.res # NilEnvelope
        /\ callRet.err = FixedErrorKind(response.StatusCode)

\* The bodies that deserialize into the destination of Preserve and Restore.
Deserializes(body) == body \in {BodyReport, BodyEmptyObject}

\* C7: Call returns a nil error exactly when the send succeeded, the status
\* is in [200,300), the body was read without error and the destination is
\* nil or the body deserializes into it; a 2xx response read without error
\* with a nil destination is a success whatever the body holds.
C7_NilErrorIffSuccess ==
    CallReturned =>
        /\ callRet.err = Nil <=>
              /\ GotResponse
              /\ Is2xx(response.StatusCode)
              /\ ~response.ReadFails
              /\ (Destination(opName) = NilStructure \/ Deserializes(response.Body))
        /\ (GotResponse /\ Is2xx(response.StatusCode) /\ ~response.ReadFails
                /\ Destination(opName) = NilStructure) => callRet.err = Nil

\* C7's case: a 204 answer whose body is no JSON, handed to Call with a nil
\* destination, has returned without error.
C7_Witness ==
    /\ CallReturned
    /\ GotResponse
    /\ response.StatusCode = 204
    /\ response.Body = <<"<html>">>
    /\ Destination(opName) = NilStructure
    /\ callRet.err = Nil

\* s ends with the tokens of suffix.
EndsWith(s, suffix) ==
    /\ Len(s) >= Len(suffix)
    /\ SubSeq(s, Len(s) - Len(suffix) + 1, Len(s)) = suffix

C9_ExportReturnsTaskID ==
    (opName = "Export" /\ opPc = "done" /\ opRet.err = Nil) => opRet.taskID # <<>>

\* C10, as amended: on any response Call got, io.ReadAll has been called on
\* the body exactly once, before the status is classified, and the body has
\* been closed exactly once on every exit path; the close is deferred: it is
\* the last call processResponse makes, after the classification and the
\* decoding.  Without a response nothing is read or closed.
C10_ReadOnceCloseOnceAtReturn ==
    /\ Count("ReadAll") <= 1
    /\ Count("Close") <= 1
    /\ Count("Classify") <= 1
    /\ (CallReturned /\ GotResponse) =>
          /\ Count("ReadAll") = 1
          /\ Count("Close") = 1
          /\ Index("ReadAll") < Index("Close")
          /\ Index("Close") = Len(events)
          /\ Count("Classify") = 1 =>
                /\ Index("ReadAll") < Index("Classify")
                /\ Index("Classify") < Index("Close")
          /\ Count("Classify") = 0 <=> response.ReadFails
    /\ (CallReturned /\ ~GotResponse) =>
          /\ Count("ReadAll") = 0
          /\ Count("Close") = 0

\* C10's case: a 2xx response has been read, classified and decoded, and
\* processResponse has returned.
C10_Witness ==
    /\ CallReturned
    /\ GotResponse
    /\ events = <<"NewRequest", "Do", "ReadAll", "Classify", "Unmarshal", "Close">>

\* C10 as stated: on any response the body is read exactly once and closed
\* exactly once on every exit path, and the close happens before the status
\* is classified.
C10_Original_CloseBeforeClassification ==
    (CallReturned /\ GotResponse) =>
        /\ Count("ReadAll") = 1
        /\ Count("Close") = 1
        /\ Count("Classify") = 1 => Index("Close") < Index("Classify")

\* ---------------------------------------------- claims on request building

\* NewRequest was called directly and returned a request.
RequestBuilt ==
    /\ opName = "NewRequest"
    /\ opPc = "done"
    /\ opRet.err = Nil
    /\ request # NilRequest

\* With basic-auth set the request carries the Basic Authorization value
\* alone, whether or not a bearer token is set; with only a bearer token set
\* it carries the Bearer value of that token alone.
AuthPrecedence ==
    LET h == request.Header.Authorization
    IN  /\ auth.HasBasicAuth => h = <<"Basic">>
        /\ ~auth.HasBasicAuth /\ auth.Bearer # "" => h = <<"Bearer " \o auth.Bearer>>

\* C11 (amended): every request NewRequest builds carries at most one
\* Authorization value: Basic alone when basic-auth is set (bearer set or
\* not), Bearer alone when only the bearer token is set, and none when
\* neither credential is set.
C11_AtMostOneAuthScheme ==
    RequestBuilt =>
        /\ AuthPrecedence
        /\ Len(request.Header.Authorization) <= 1
        /\ ~auth.HasBasicAuth /\ auth.Bearer = "" => request.Header.Authorization = <<>>

\* Both credentials are set and the request carries Basic alone.
C11_Witness ==
    /\ RequestBuilt
    /\ auth.HasBasicAuth
    /\ auth.Bearer # ""
    /\ request.Header.Authorization = <<"Basic">>

\* C11 as stated: every request NewRequest builds carries exactly one auth
\* scheme.
C11_Original_ExactlyOneAuthScheme ==
    RequestBuilt =>
        /\ AuthPrecedence
        /\ Len(request.Header.Authorization) = 1

FixedErrorKinds ==
    {"ErrNotFound", "ErrUnauthorized", "ErrInternal", "ErrBadRequest",
     "ErrInvalidStatusCode"}

\* C13: when the destination is not nil and the status is in [200,300), a
\* body that does not deserialize into it (the empty body included) makes
\* Call return an error that is not nil and is none of the fixed HTTP-status
\* error kinds, together with the envelope of the response; when the body
\* was read without error the envelope holds the whole body and the error
\* is the decoder's.
C13_UndecodableBodyFails ==
    ( /\ CallReturned
      /\ GotResponse
      /\ Is2xx(response.StatusCode)
      /\ Destination(opName) # NilStructure
      /\ ~Deserializes(response.Body) ) =>
        /\ callRet.err # Nil
        /\ callRet.err \notin FixedErrorKinds
        /\ callRet.res # NilEnvelope
        /\ callRet.res.Code = response.StatusCode
        /\ callRet.res.Endpoint = response.RequestURL
        /\ callRet.res.Method = response.RequestMethod
        /\ ~response.ReadFails =>
              /\ Populated(callRet.res)
              /\ callRet.err = "ErrJSONDecode"

\* Preserve answered 200 with an empty body.
C13_Witness ==
    /\ CallReturned
    /\ opName = "Preserve"
    /\ GotResponse
    /\ response.StatusCode = 200
    /\ response.Body = <<>>
    /\ ~response.ReadFails
    /\ callRet.err = "ErrJSONDecode"
    /\ Populated(callRet.res)

\* C14: when the transport's send fails, Call returns the transport's error
\* with a nil envelope at once: no body is read, no status classified,
\* nothing decoded or closed.  Conversely the envelope Call returns is nil
\* only when the send failed.
C14_TransportFailureNilEnvelope ==
    CallReturned =>
        /\ ~GotResponse =>
              /\ callRet = CallResult(NilEnvelope, "ErrTransport")
              /\ events = <<"NewRequest", "Do">>
        /\ callRet.res = NilEnvelope => ~GotResponse

\* The send failed and Call returned.
C14_Witness ==
    /\ CallReturned
    /\ ~GotResponse
    /\ callRet.res = NilEnvelope
    /\ callRet.err = "ErrTransport"

\* ------------------------------------------ claims on the archival operations

\* The operation was given an empty issue list or an empty JQL string.
EmptyIssueList == opName \in {"Preserve", "Restore"} /\ opArg = <<>>

EmptyJQL == opName = "PreserveByJQL" /\ opArg = ""

\* C15: the domain arguments are validated before any request is built:
\* Preserve and Restore given an empty issue list return ErrNoIssuesSlice,
\* PreserveByJQL given an empty JQL string returns ErrNoJQL, each with a nil
\* result, an empty task ID and a nil envelope, and neither NewRequest nor
\* the transport is called.
C15_ValidationBeforeRequest ==
    (EmptyIssueList \/ EmptyJQL) =>
        /\ events = <<>>
        /\ request = NilRequest
        /\ opPc \in {"start", "done"}
        /\ opPc = "done" =>
              opRet = OpResult(NilStructure, <<>>, NilEnvelope,
                               IF EmptyJQL THEN "ErrNoJQL" ELSE "ErrNoIssuesSlice")

\* PreserveByJQL given an empty JQL string and a nil context has returned
\* ErrNoJQL.
C15_Witness ==
    /\ EmptyJQL
    /\ ctx = Nil
    /\ opPc = "done"
    /\ opRet.err = "ErrNoJQL"
    /\ opRet.response = NilEnvelope
    /\ events = <<>>

\* The operation's argument passes its validation.
ValidArgument == ~EmptyIssueList /\ ~EmptyJQL

\* C16: when the building of the request fails, the operation returns that
\* error with a nil result, an empty task ID and a nil envelope, and the
\* transport is never invoked.  An endpoint that does not parse (a version
\* holding a control character) gives the parser's error, a nil context the
\* error of http.NewRequestWithContext; a body the encoder refuses makes
\* NewRequest return its error and no request, for every other argument.
C16_BuildFailureNoTransport ==
    /\ (opName \in Ops /\ ValidArgument /\ (version = CTL \/ ctx = Nil)) =>
          /\ Count("Do") = 0
          /\ request = NilRequest
          /\ opPc \in {"start", "done"}
          /\ opPc = "done" =>
                /\ events = <<"NewRequest">>
                /\ opRet = OpResult(NilStructure, <<>>, NilEnvelope,
                                    IF version = CTL THEN "ErrURLParse"
                                                     ELSE "ErrNilContext")
    /\ \A args \in RequestArgs :
          args.body.kind = "unencodable" =>
              LET built == NewRequest(client.Site, auth, ctx, args.method, args.urlStr,
                                      args.contentType, args.body)
              IN  built.req = NilRequest /\ built.err # Nil

\* Restore on a service whose version does not parse has returned the
\* parser's error.
C16_Witness ==
    /\ opName = "Restore"
    /\ ValidArgument
    /\ version = CTL
    /\ opPc = "done"
    /\ opRet.err = "ErrURLParse"
    /\ opRet.response = NilEnvelope
    /\ Count("Do") = 0

\* C17: no layer retries.  Whatever the outcome, an operation builds at most
\* one request and calls Call at most once, Call sends at most once, and a
\* response is read, classified, decoded and closed at most once; an
\* operation that got its request built has sent exactly once when it
\* returns.
C17_NoRetry ==
    /\ \A e \in {"NewRequest", "Do", "ReadAll", "Classify", "Unmarshal", "Close"} :
          Count(e) <= 1
    /\ (opPc = "done" /\ request # NilRequest) => Count("Do") = 1

\* A send that failed, and a response of status 500, were not sent again.
C17_Witness ==
    /\ opPc = "done"
    /\ opName \in Ops
    /\ Count("Do") = 1
    /\ \/ opRet.err = "ErrTransport"
       \/ opRet.err = "ErrInternal"

\* ------------------------------------------ claims on New's arguments

\* The option was made from a nil argument.
NilArgument(opt) ==
    \/ opt.kind = "WithOAuth" /\ opt.config = Nil
    \/ opt.kind = "WithAutoRenewalToken" /\ opt.token = Nil
    \/ opt.kind \in {"WithTokenStore", "WithTokenCallback"} /\ opt.hook = Nil

\* The error of each of them.
NilArgumentError(opt) ==
    CASE opt.kind = "WithOAuth" -> "ErrOAuthConfigNil"
      [] opt.kind = "WithAutoRenewalToken" -> "ErrTokenNil"
      [] opt.kind = "WithTokenStore" -> "ErrTokenStoreNil"
      [] opt.kind = "WithTokenCallback" -> "ErrTokenCallbackNil"

\* C18: WithOAuth(nil), WithAutoRenewalToken(nil), WithTokenStore(nil) and
\* WithTokenCallback(nil) each return their error wherever they stand in the
\* list and whatever the client holds, so New ends at that option and
\* returns that error and no client.
C18_NilArgumentFailsNew ==
    \A i \in 1..Len(applied) :
        NilArgument(applied[i]) =>
            /\ optErrs[i] = NilArgumentError(applied[i])
            /\ i = Len(applied)
            /\ newPc = "done"
            /\ newRet = NewResult(NilClient, optErrs[i])

\* WithTokenStore(nil) after an option that succeeded.
C18_Witness ==
    /\ Len(applied) = 2
    /\ optErrs[1] = Nil
    /\ applied[2] = Opt("WithTokenStore", Nil, Nil, Nil)
    /\ newPc = "done"
    /\ newRet = NewResult(NilClient, "ErrTokenStoreNil")

\* C19: New given an empty site returns ErrNoSite and no client, for every
\* httpClient (nil included) and every option list, and applies none of the
\* options: no client is built for them to act on.
C19_EmptySiteNoClient ==
    site = <<>> =>
        /\ applied = <<>>
        /\ client = NilClient
        /\ newPc \in {"start", "done"}
        /\ newPc = "done" => newRet = NewResult(NilClient, "ErrNoSite")

\* New(nil, "", options...) with a list that is not empty has returned.
C19_Witness ==
    /\ site = <<>>
    /\ httpClient = NilHTTP
    /\ nOptions > 0
    /\ newPc = "done"
    /\ newRet = NewResult(NilClient, "ErrNoSite")
    /\ applied = <<>>

\* C20: the Site of the client New builds is the site argument itself when
\* that ends in a path separator and the site argument with exactly one
\* separator appended when it does not, so it ends in a separator; it is
\* the Site of the client New returns, and it stays what it is through
\* every option and through every step of an archival operation run on the
\* client (NewRequest, Call, the return).
C20_SiteEndsInSeparatorAndStays ==
    client # NilClient =>
        /\ client.Site[Len(client.Site)] = "/"
        /\ client.Site = IF site[Len(site)] = "/" THEN site ELSE site \o <<"/">>
        /\ newRet.client # NilClient => newRet.client.Site = client.Site

\* An operation has sent its request and returned, on a client built with
\* one option from a site without a trailing separator.
C20_Witness ==
    /\ site = <<"x">>
    /\ Len(applied) = 1
    /\ newRet.client # NilClient
    /\ newRet.client.Site = <<"x", "/">>
    /\ opPc = "done"
    /\ Count("Do") = 1
    /\ client.Site = <<"x", "/">>

\* ------------------------------------------ claims on the transport chain

\* The wrapper layers and the OAuth refresh layers of a transport chain.
RECURSIVE WrapperLayers(_)
WrapperLayers(http) ==
    IF http.kind = "wrapper" THEN 1 + WrapperLayers(http.OriginalClient)
    ELSE IF http.kind = "oauth" THEN WrapperLayers(http.Base)
    ELSE 0

RECURSIVE OAuthLayers(_)
OAuthLayers(http) ==
    IF http.kind = "wrapper" THEN OAuthLayers(http.OriginalClient)
    ELSE IF http.kind = "oauth" THEN 1 + OAuthLayers(http.Base)
    ELSE 0

\* The transport New starts the client with.
InitialTransport == IF httpClient = NilHTTP THEN DefaultClient ELSE httpClient

\* C21: after any sequence of options (WithTokenStore, WithTokenCallback,
\* WithAutoRenewalToken and the options that install OAuth, repeated or
\* not) the client's transport chain holds at most one wrapper layer and at
\* most one OAuth refresh layer, over the transport the client started with.
C21_AtMostOneLayerEach ==
    client # NilClient =>
        /\ WrapperLayers(client.HTTP) <= 1
        /\ OAuthLayers(client.HTTP) <= 1
        /\ ExtractBaseTransport(client.HTTP) = InitialTransport

\* Auto-renewal was enabled twice, with a store attached in between.
C21_Witness ==
    /\ Len(applied) = 3
    /\ \A i \in 1..3 : optErrs[i] = Nil
    /\ applied[1].kind = "WithOAuthWithAutoRenewal"
    /\ applied[2].kind = "WithTokenStore"
    /\ applied[3].kind = "WithAutoRenewalToken"
    /\ OAuthLayers(client.HTTP) = 1
    /\ WrapperLayers(client.HTTP) = 0

\* The transports of a chain: the transport and every one beneath it.
RECURSIVE Chain(_)
Chain(http) ==
    {http} \cup
        (IF http.kind = "wrapper" THEN Chain(http.OriginalClient)
         ELSE IF http.kind = "oauth" THEN Chain(http.Base)
         ELSE {})

FirstClient ==
    [kind |-> "client", HTTP |-> InitialTransport, Site |-> NormaliseSite(site),
     OAuth |-> NilOAuth, Bearer |-> ""]

\* The client left by the options of a list applied one after the other.
RECURSIVE ApplyAll(_, _)
ApplyAll(opts, c) ==
    IF opts = <<>> THEN c
    ELSE ApplyAll(Tail(opts), ApplyOption(Head(opts), c).c)

\* C24: New applies the options in the order given, each to the client the
\* ones before it left, and stops at the first that returns an error: only
\* the last option invoked can have failed, New has then returned that
\* error, and a New that returned a client invoked them all.
C24_OptionsInOrderStopAtFirstError ==
    /\ Len(applied) <= nOptions
    /\ Len(optErrs) = Len(applied)
    /\ \A i \in 1..Len(applied) :
          /\ optErrs[i] =
                ApplyOption(applied[i],
                            ApplyAll(SubSeq(applied, 1, i - 1), FirstClient)).err
          /\ i < Len(applied) => optErrs[i] = Nil
          /\ optErrs[i] # Nil =>
                /\ newPc = "done"
                /\ newRet = NewResult(NilClient, optErrs[i])
    /\ client # NilClient => client = ApplyAll(applied, FirstClient)
    /\ (newPc = "done" /\ newRet.err = Nil) => Len(applied) = nOptions

\* The second of three options failed and New returned.
C24_Witness ==
    /\ nOptions = 3
    /\ Len(applied) = 2
    /\ optErrs[1] = Nil
    /\ optErrs[2] # Nil
    /\ newPc = "done"
    /\ newRet.err = optErrs[2]

\* ------------------------------------------------ claims on the envelope

\* C25 (amended): every envelope Call returns that is not nil describes the
\* exchange that produced it: Code is the response's status, Endpoint the
\* URL and Method the method of the request the response answers, and Bytes
\* the whole body unless the read failed (then Bytes is empty).  Endpoint is
\* the URL of the request that was built when the response answers that
\* request, not a location the transport was redirected to.
C25_EnvelopeDescribesExchange ==
    (CallReturned /\ callRet.res # NilEnvelope) =>
        /\ GotResponse
        /\ callRet.res.Code = response.StatusCode
        /\ callRet.res.Endpoint = response.RequestURL
        /\ callRet.res.Method = response.RequestMethod
        /\ callRet.res.Bytes = IF response.ReadFails THEN <<>> ELSE response.Body
        /\ response.RequestURL = request.URL => callRet.res.Endpoint = request.URL

\* A success whose response answers the request of a redirection.
C25_Witness ==
    /\ CallReturned
    /\ callRet.err = Nil
    /\ callRet.res # NilEnvelope
    /\ response.RequestURL = TaskURL
    /\ request.URL # TaskURL
    /\ callRet.res.Endpoint = TaskURL
    /\ callRet.res.Bytes = response.Body

\* C25 as stated: on success the envelope's endpoint is that of the request
\* that was built.
C25_Original_EndpointOfBuiltRequest ==
    (CallReturned /\ callRet.res # NilEnvelope) =>
        /\ callRet.res.Code = response.StatusCode
        /\ callRet.res.Endpoint = response.RequestURL
        /\ callRet.res.Method = response.RequestMethod
        /\ ~response.ReadFails => callRet.res.Bytes = response.Body
        /\ callRet.err = Nil => callRet.res.Endpoint = request.URL

\* ------------------------------------ claims on concurrent credential writes

\* C26: a request NewRequest builds while another thread writes the
\* credentials carries at most one Authorization value and never a Bearer
\* value made of an empty token.
C26_RaceFreeAuthorization ==
    (opName = "NewRequest" /\ opPc = "done" /\ request # NilRequest) =>
        /\ Len(request.Header.Authorization) <= 1
        /\ \A i \in 1..Len(request.Header.Authorization) :
              request.Header.Authorization[i] # "Bearer "

\* ------------------------------------------- claims on what options change

\* The client as the options before the last one left it.
ClientBeforeLastOption ==
    ApplyAll(SubSeq(applied, 1, Len(applied) - 1), FirstClient)

\* C27: an option that returns an error leaves the client unchanged: its
\* HTTP transport, its OAuth service and its bearer token are what they
\* were before the option ran, for every option, the composite included.
C27_FailedOptionLeavesClientUnchanged ==
    (Len(applied) > 0 /\ optErrs[Len(applied)] # Nil) =>
        /\ client.HTTP = ClientBeforeLastOption.HTTP
        /\ client.OAuth = ClientBeforeLastOption.OAuth
        /\ client.Bearer = ClientBeforeLastOption.Bearer

\* ------------------------------------ claims on what the operations return

\* C28: Preserve and Restore return a result that is not nil exactly when
\* they return a nil error.  Every operation returns the envelope Call
\* returned, unchanged, next to the error of a status outside [200,300) or
\* of the decoder; it returns a nil envelope next to a validation error, a
\* build error (no call was made) and a transport error.  PreserveByJQL
\* returns the empty task ID whenever it returns an error.
C28_ResultEnvelopeError ==
    (opName \in Ops /\ opPc = "done") =>
        /\ opName \in {"Preserve", "Restore"} =>
              (opRet.result # NilStructure <=> opRet.err = Nil)
        /\ opName \in {"PreserveByJQL", "Export"} => opRet.result = NilStructure
        /\ Count("Do") = 0 =>
              /\ opRet.response = NilEnvelope
              /\ opRet.err # Nil
        /\ Count("Do") = 1 =>
              /\ opRet.response = callRet.res
              /\ opRet.err = callRet.err
              /\ ~GotResponse => opRet.response = NilEnvelope
              /\ opRet.err \in FixedErrorKinds \cup {"ErrJSONDecode"} =>
                    /\ opRet.response # NilEnvelope
                    /\ Populated(opRet.response)
        /\ (opName = "PreserveByJQL" /\ opRet.err # Nil) => opRet.taskID = <<>>

\* Restore answered 404: no result, the envelope and ErrNotFound.
C28_Witness ==
    /\ opName = "Restore"
    /\ opPc = "done"
    /\ GotResponse
    /\ response.StatusCode = 404
    /\ opRet.result = NilStructure
    /\ opRet.err = "ErrNotFound"
    /\ Populated(opRet.response)

\* C29: Call writes into the destination only on a response of a status in
\* [200,300): when the send fails, the body read fails or the status is
\* outside that range, nothing is decoded and the destination is as the
\* caller passed it, even when the body of the error response is valid JSON
\* for the destination.
C29_DestinationWrittenOnlyOn2xx ==
    ( /\ opName \in Ops
      /\ CallReturned
      /\ \/ ~GotResponse
         \/ response.ReadFails
         \/ ~Is2xx(response.StatusCode) ) =>
        /\ Count("Unmarshal") = 0
        /\ structure = Destination(opName)

\* Preserve answered 400 with a body that is a valid report.
C29_Witness ==
    /\ opName = "Preserve"
    /\ CallReturned
    /\ GotResponse
    /\ response.StatusCode = 400
    /\ response.Body = BodyReport
    /\ ~response.ReadFails
    /\ structure = [kind |-> "ptr", value |-> "zero"]
    /\ callRet.err = "ErrBadRequest"

\* ---------------------------------------------- claims on auto-renewal

RenewalKinds == {"WithAutoRenewalToken", "WithOAuthWithAutoRenewal"}

\* The position of the last option that enabled auto-renewal, 0 if none.
LastRenewal ==
    LET S == {i \in 1..Len(applied) :
                 applied[i].kind \in RenewalKinds /\ optErrs[i] = Nil}
    IN  IF S = {} THEN 0 ELSE CHOOSE i \in S : \A j \in S : j <= i

====
